---- MODULE Spec2Model ----
(***************************************************************************)
(* Life WBS Manager (src/app.py): the valuation formulas, the hierarchical *)
(* ledger held in st.session_state.wbs_data and the form handlers that     *)
(* mutate it.                                                              *)
(*                                                                         *)
(* Money.  Every amount of the program is a multiple of 10,000,000 yen and *)
(* reaches 10^10, beyond TLC's 32-bit integers.  Amounts are therefore     *)
(* counted in units of 10,000,000 yen: 10_000_000_000 is 1000, 120_000_000 *)
(* is 12, 360_000_000 is 36, -10_000_000 is -1 and 50_000_000 is 5.  The   *)
(* program computes with Python / int64 integers, which never overflow on  *)
(* these magnitudes, so the scaling loses nothing.                         *)
(*                                                                         *)
(* Text.  A string is a sequence of atoms.  The atoms of an ID and of a    *)
(* year label are single characters, so that "1.10", str(n), split(".")    *)
(* and int() are computed the way Python computes them; a fixed Japanese   *)
(* caption of the program is one opaque atom.                              *)
(***************************************************************************)
EXTENDS Integers, Sequences, FiniteSets, TLC

\* ------------------------------------------------------------------ bounds
MaxActions == 2
    \* appended action rows held by the ledger at one time
BaseYear == 2026
    \* datetime.now().year of the session
MaxSortLen == 3
    \* length of the row lists handed to sort_wbs on its own

\* --------------------------------------------------------------- constants
INITIAL_CAPITAL == 1000
DEPRECIATION_RATE == 12
GOODWILL_RATE == 36
PL_STATUS_QUO == 0 - 1
PL_CHALLENGE == 0
PL_BIG_WIN == 5

STATUS_PL_MAP ==
    [s \in {"Status Quo", "Challenge", "Big Win"} |->
        CASE s = "Status Quo" -> PL_STATUS_QUO
          [] s = "Challenge" -> PL_CHALLENGE
          [] s = "Big Win" -> PL_BIG_WIN]

\* the internal status ids the status select box can produce
STATUS_LABELS == {"Status Quo", "Challenge", "Big Win"}

MinAge == 1
MaxAge == 120
MinWins == 0
MaxWins == 100

\* -------------------------------------------------------------------- text
DigitChar == <<"0", "1", "2", "3", "4", "5", "6", "7", "8", "9">>

DigitVal(c) == (CHOOSE d \in 1..10 : DigitChar[d] = c) - 1

\* str(n) for a natural number n
RECURSIVE Str(_)
Str(n) ==
    IF n < 10 THEN <<DigitChar[n + 1]>>
    ELSE Str(n \div 10) \o <<DigitChar[(n % 10) + 1]>>

\* int(s) for a string of decimal digits
RECURSIVE ToInt(_)
ToInt(s) ==
    IF Len(s) = 0 THEN 0
    ELSE 10 * ToInt(SubSeq(s, 1, Len(s) - 1)) + DigitVal(s[Len(s)])

\* s.find(".", i - 1) + 1: the position of the first dot from i on, 0 if none
RECURSIVE FirstDot(_, _)
FirstDot(s, i) ==
    IF i > Len(s) THEN 0
    ELSE IF s[i] = "." THEN i
    ELSE FirstDot(s, i + 1)

\* s.split("."): the pieces between the dots
RECURSIVE Split(_)
Split(s) ==
    LET k == FirstDot(s, 1)
    IN IF k = 0 THEN <<s>>
       ELSE <<SubSeq(s, 1, k - 1)>> \o Split(SubSeq(s, k + 1, Len(s)))

\* s.strip(): leading and trailing blanks removed
RECURSIVE Strip(_)
Strip(s) ==
    IF Len(s) = 0 THEN s
    ELSE IF s[1] = " " THEN Strip(Tail(s))
    ELSE IF s[Len(s)] = " " THEN Strip(SubSeq(s, 1, Len(s) - 1))
    ELSE s

\* f"{m:02d}" as produced by strftime("%m")
Pad2(m) == IF m < 10 THEN <<"0">> \o Str(m) ELSE Str(m)

\* f"FY{year}"
FYName(year) == <<"F", "Y">> \o Str(year)

ROOT == <<"0">>

\* ---------------------------------------------------------------- valuation
Min(a, b) == IF a <= b THEN a ELSE b

calculate_valuation_uncapped(age, wins) ==
    LET depreciation == age * DEPRECIATION_RATE
        raw_goodwill == wins * GOODWILL_RATE
        goodwill == raw_goodwill
    IN [depreciation |-> depreciation,
        goodwill |-> goodwill,
        initial_asset |-> INITIAL_CAPITAL - depreciation + goodwill]

calculate_valuation_minus(age, wins) ==
    LET depreciation == age * DEPRECIATION_RATE
        raw_goodwill == wins * GOODWILL_RATE
        goodwill == Min(raw_goodwill, depreciation)
    IN [depreciation |-> depreciation,
        goodwill |-> goodwill,
        initial_asset |-> INITIAL_CAPITAL - depreciation - goodwill]

calculate_valuation(age, wins) ==
    LET depreciation == age * DEPRECIATION_RATE
        raw_goodwill == wins * GOODWILL_RATE
        goodwill == Min(raw_goodwill, depreciation)
    IN [depreciation |-> depreciation,
        goodwill |-> goodwill,
        initial_asset |-> INITIAL_CAPITAL - depreciation + goodwill]

\* ------------------------------------------------------------------- ledger
\* one row of the DataFrame; origin is a history field (not a column of the
\* program) recording which code created the row
Row(id, parent, task, status, pl, memo, origin) ==
    [ID |-> id, Parent |-> parent, Task |-> task, Status |-> status,
     PL |-> pl, Memo |-> memo, origin |-> origin]

Indices(df) == 1..Len(df)

\* the button handler's defaulting of blank challenge descriptions
filled_details(win_details) ==
    [i \in 1..Len(win_details) |->
        IF Strip(win_details[i]) # <<>> THEN Strip(win_details[i])
        ELSE <<"challenge #">> \o Str(i)]

generate_initial_wbs(age, wins, valuation, win_details, year) ==
    LET base ==
            << Row(<<"1">>, ROOT, <<"project: life">>, "In Progress",
                   INITIAL_CAPITAL, <<"initial capital">>, "genesis"),
               Row(<<"1", ".", "1">>, <<"1">>,
                   <<"past cost 0-">> \o Str(age) \o <<" years">>, "Lost",
                   0 - valuation.depreciation,
                   <<"age ">> \o Str(age) \o <<" x rate">>, "genesis") >>
        summary ==
            << Row(<<"1", ".", "2">>, <<"1">>, <<"due diligence">>, "Bonus",
                   valuation.goodwill,
                   Str(wins) \o <<" challenges x rate">>, "genesis") >>
        details ==
            [i \in 1..Len(win_details) |->
                Row(<<"1", ".", "2", ".">> \o Str(i), <<"1", ".", "2">>,
                    win_details[i], "Bonus", 0,
                    <<"challenge #">> \o Str(i), "genesis")]
        phase ==
            << Row(<<"2">>, ROOT, FYName(year), "In Progress", 0,
                   <<"current year">>, "genesis") >>
    IN IF wins > 0 THEN base \o summary \o details \o phase
       ELSE base \o phase

\* rank of a digit string of one or two characters in text order:
\* "1" < "10" < "19" < "2"
TextRank(piece) ==
    IF Len(piece) = 0 THEN 0
    ELSE 11 * DigitVal(piece[1])
         + (IF Len(piece) > 1 THEN DigitVal(piece[2]) + 1 ELSE 0)

\* the key with its components left as text: tuple(x.split("."))
SortKeyAsText(id) == [k \in 1..Len(Split(id)) |-> TextRank(Split(id)[k])]

\* tuple(int(n) for n in x.split("."))
SortKey(id) == [k \in 1..Len(Split(id)) |-> ToInt(Split(id)[k])]

\* Python's a < b on tuples of integers that agree before position k: the
\* first position where they differ decides, a proper prefix comes first
RECURSIVE TupleLessFrom(_, _, _)
TupleLessFrom(a, b, k) ==
    IF k > Len(b) THEN FALSE
    ELSE IF k > Len(a) THEN TRUE
    ELSE IF a[k] # b[k] THEN a[k] < b[k]
    ELSE TupleLessFrom(a, b, k + 1)

TupleLess(a, b) == TupleLessFrom(a, b, 1)

\* the row of this key goes behind the first n keys of the sorted list: the
\* scan runs from the right and stops at the first key that is not greater
RECURSIVE PlaceOf(_, _, _)
PlaceOf(keys, key, n) ==
    IF n = 0 THEN 0
    ELSE IF TupleLess(key, keys[n]) THEN PlaceOf(keys, key, n - 1)
    ELSE n

InsertAt(seq, n, x) == SubSeq(seq, 1, n) \o <<x>> \o SubSeq(seq, n + 1, Len(seq))

\* insertion of the rows of rest, one by one, into sorted (whose keys are keys)
RECURSIVE SortFrom(_, _, _)
SortFrom(sorted, keys, rest) ==
    IF rest = <<>> THEN sorted
    ELSE LET key == SortKey(Head(rest).ID)
             n == PlaceOf(keys, key, Len(keys))
         IN SortFrom(InsertAt(sorted, n, Head(rest)),
                     InsertAt(keys, n, key), Tail(rest))

\* df.sort_values("_sort_key"): ascending by SortKey; rows of equal key keep
\* their order (numpy sorts a run of at most 16 elements by insertion)
sort_wbs(df) == SortFrom(<<>>, <<>>, df)

\* the children looked up in the ID column instead of the Parent column
get_next_action_id_wrong_column(df, parent_id) ==
    LET children == {i \in Indices(df) : df[i].ID = parent_id}
        next_num == Cardinality(children) + 1
    IN parent_id \o <<".">> \o Str(next_num)

get_next_action_id(df, parent_id) ==
    LET children == {i \in Indices(df) : df[i].Parent = parent_id}
        next_num == Cardinality(children) + 1
    IN parent_id \o <<".">> \o Str(next_num)

get_phase_ids(df) ==
    {df[i].ID : i \in {j \in Indices(df) :
                          df[j].Parent = ROOT /\ df[j].ID # <<"1">>}}

SetMax(S) == CHOOSE m \in S : \A x \in S : x <= m

SetMin(S) == CHOOSE m \in S : \A x \in S : m <= x

find_or_create_year_phase(df, year) ==
    LET phase_name == FYName(year)
        match == {i \in Indices(df) : df[i].Task = phase_name}
        root_children == {i \in Indices(df) : df[i].Parent = ROOT}
        max_id == SetMax({ToInt(df[i].ID) : i \in root_children})
        new_phase_id == Str(max_id + 1)
        new_phase == Row(new_phase_id, ROOT, phase_name, "In Progress", 0,
                         Str(year) \o <<" year">>, "phase")
    IN IF match # {}
       THEN [df |-> df, id |-> df[SetMin(match)].ID]
       ELSE [df |-> sort_wbs(Append(df, new_phase)), id |-> new_phase_id]

RECURSIVE SumPL(_)
SumPL(df) == IF df = <<>> THEN 0 ELSE Head(df).PL + SumPL(Tail(df))

calculate_kpis(df) ==
    LET phase_ids == get_phase_ids(df)
        negative == SelectSeq(df, LAMBDA r : r.PL < 0)
    IN [current_asset |-> SumPL(df),
        total_loss |-> SumPL(negative),
        action_count |->
            Cardinality({i \in Indices(df) : df[i].Parent \in phase_ids})]

\* ------------------------------------------------------------ session state
VARIABLES
    loaded,      \* st.session_state.wbs_data is not None
    wbs_data,    \* the DataFrame, a sequence of rows (<<>> while not loaded)
    genesis,     \* history: the age and wins the project was started with
    firstPhase,  \* history: per year, the id the first phase lookup returned
    error,       \* the last run of the script ended in st.error
    probe        \* argument and result of a function evaluated on its own

vars == <<loaded, wbs_data, genesis, firstPhase, error, probe>>

\* years picked in the date input of the record form
Years == {BaseYear, BaseYear + 1}

\* months picked in the date input of the record form
Months == {11}

NoId == <<>>

\* <<age, wins>> typed into the two number inputs before the start button
LedgerStarts == {<<30, 0>>, <<120, 2>>}

\* texts typed into the task name box of the record form
RecordTaskInputs == {<<>>, <<" ">>, <<" ", "a">>}

\* texts typed into the task name box of the edit form
EditTaskInputs == {<<>>, <<" ">>, FYName(BaseYear + 1) \o <<" ">>}

\* texts typed into the memo box of the record form
RecordMemoInputs == {<<>>}

\* texts typed into the memo box of the edit form
EditMemoInputs == {<<"m">>}

NoProbe == [kind |-> "none"]

Init ==
    /\ loaded = FALSE
    /\ wbs_data = <<>>
    /\ genesis = [age |-> 0, wins |-> 0]
    /\ firstPhase = [y \in Years |-> NoId]
    /\ error = FALSE
    /\ probe = NoProbe

\* the start button of the onboarding screen
StartProject(age, wins, win_details) ==
    /\ ~loaded
    /\ age \in MinAge..MaxAge
    /\ wins \in MinWins..MaxWins
    /\ Len(win_details) = wins
    /\ LET valuation == calculate_valuation(age, wins)
       IN wbs_data' = generate_initial_wbs(age, wins, valuation,
                                           filled_details(win_details),
                                           BaseYear)
    /\ loaded' = TRUE
    /\ genesis' = [age |-> age, wins |-> wins]
    /\ firstPhase' = [y \in Years |-> NoId]
    /\ error' = FALSE
    /\ UNCHANGED probe

\* the reset button and the title button of the sidebar
ResetData ==
    /\ loaded
    /\ loaded' = FALSE
    /\ wbs_data' = <<>>
    /\ genesis' = [age |-> 0, wins |-> 0]
    /\ firstPhase' = [y \in Years |-> NoId]
    /\ error' = FALSE
    /\ UNCHANGED probe

NumAppended(df) == Cardinality({i \in Indices(df) : df[i].origin = "append"})

NewActionRow_flatPL(df, phase_id, year, month, task_name, status, memo) ==
    Row(get_next_action_id(df, phase_id), phase_id,
        Str(year) \o <<"-">> \o Pad2(month) \o <<" ">> \o Strip(task_name),
        status, PL_STATUS_QUO, memo, "append")

\* the row the record handler builds
NewActionRow(df, phase_id, year, month, task_name, status, memo) ==
    Row(get_next_action_id(df, phase_id), phase_id,
        Str(year) \o <<"-">> \o Pad2(month) \o <<" ">> \o Strip(task_name),
        status, STATUS_PL_MAP[status], memo, "append")

\* the ledger the record handler stores
RecordResult(df, year, month, task_name, status, memo) ==
    LET found == find_or_create_year_phase(df, year)
    IN sort_wbs(Append(found.df,
                       NewActionRow(found.df, found.id, year, month,
                                    task_name, status, memo)))

\* the record button with a task name
RecordAction(year, month, task_name, status, memo) ==
    /\ loaded
    /\ get_phase_ids(wbs_data) # {}
    /\ Strip(task_name) # <<>>
    /\ NumAppended(wbs_data) < MaxActions
    /\ wbs_data' = RecordResult(wbs_data, year, month, task_name, status, memo)
    /\ firstPhase' =
          IF firstPhase[year] = NoId
          THEN [firstPhase EXCEPT
                   ![year] = find_or_create_year_phase(wbs_data, year).id]
          ELSE firstPhase
    /\ error' = FALSE
    /\ UNCHANGED <<loaded, genesis, probe>>

\* the record button with a blank task name: st.error, nothing stored
RecordRejected(task_name) ==
    /\ loaded
    /\ get_phase_ids(wbs_data) # {}
    /\ Strip(task_name) = <<>>
    /\ error' = TRUE
    /\ UNCHANGED <<loaded, wbs_data, genesis, firstPhase, probe>>

\* rows listed by the edit select box: children of a phase row
ActionRows(df) ==
    LET phase_ids == get_phase_ids(df)
    IN {i \in Indices(df) : df[i].Parent \in phase_ids}

\* edit_options maps "ID | Task" to an index; of several rows with the same
\* ID and Task the dict keeps the last one
Selectable(df) ==
    LET action_rows == ActionRows(df)
    IN {i \in action_rows :
           ~\E j \in action_rows :
               j > i /\ df[j].ID = df[i].ID /\ df[j].Task = df[i].Task}

SaveEdit_keepPL(selected_idx, edit_task, edit_status, edit_memo) ==
    /\ loaded
    /\ Strip(edit_task) # <<>>
    /\ selected_idx \in Indices(wbs_data)
    /\ wbs_data' =
          [wbs_data EXCEPT
              ![selected_idx] = [@ EXCEPT !.Task = Strip(edit_task),
                                          !.Status = edit_status,
                                          !.Memo = edit_memo]]
    /\ selected_idx \in Selectable(wbs_data)
    /\ error' = FALSE
    /\ UNCHANGED <<loaded, genesis, firstPhase, probe>>

\* the save button with a task name (the row is one the select box offers;
\* that condition is written after the cells are stored only because it is the
\* most expensive one to evaluate)
SaveEdit(selected_idx, edit_task, edit_status, edit_memo) ==
    /\ loaded
    /\ Strip(edit_task) # <<>>
    /\ selected_idx \in Indices(wbs_data)
    /\ wbs_data' =
          [wbs_data EXCEPT
              ![selected_idx] = [@ EXCEPT !.Task = Strip(edit_task),
                                          !.Status = edit_status,
                                          !.PL = STATUS_PL_MAP[edit_status],
                                          !.Memo = edit_memo]]
    /\ selected_idx \in Selectable(wbs_data)
    /\ error' = FALSE
    /\ UNCHANGED <<loaded, genesis, firstPhase, probe>>

\* the save button with a blank task name: st.error, nothing stored
SaveRejected(selected_idx, edit_task) ==
    /\ loaded
    /\ selected_idx \in Selectable(wbs_data)
    /\ Strip(edit_task) = <<>>
    /\ error' = TRUE
    /\ UNCHANGED <<loaded, wbs_data, genesis, firstPhase, probe>>

\* df.drop(index=selected_idx)
Drop(df, idx) == SubSeq(df, 1, idx - 1) \o SubSeq(df, idx + 1, Len(df))

\* the delete button of the edit form
DeleteRow(selected_idx) ==
    /\ loaded
    /\ selected_idx \in Selectable(wbs_data)
    /\ wbs_data' = sort_wbs(Drop(wbs_data, selected_idx))
    /\ error' = FALSE
    /\ UNCHANGED <<loaded, genesis, firstPhase, probe>>

\* the challenge description boxes, one text per challenge: all left blank
\* but the last, which reads like the label of next year's phase
DetailLists(wins) ==
    {[i \in 1..wins |-> IF i = wins THEN FYName(BaseYear + 1) ELSE <<" ">>]}

\* the runs of the script in which the submitted form is accepted
Next ==
    \/ \E start \in LedgerStarts :
          \E win_details \in DetailLists(start[2]) :
             StartProject(start[1], start[2], win_details)
    \/ ResetData
    \/ \E year \in Years, month \in Months, task_name \in RecordTaskInputs,
          status \in STATUS_LABELS, memo \in RecordMemoInputs :
          RecordAction(year, month, task_name, status, memo)
    \/ \E idx \in Selectable(wbs_data), edit_task \in EditTaskInputs,
          edit_status \in STATUS_LABELS, edit_memo \in EditMemoInputs :
          SaveEdit(idx, edit_task, edit_status, edit_memo)
    \/ \E idx \in Selectable(wbs_data) : DeleteRow(idx)

\* the runs in which the submitted form is refused: st.error and no store
Rejected ==
    \/ \E task_name \in RecordTaskInputs : RecordRejected(task_name)
    \/ \E idx \in Selectable(wbs_data), edit_task \in EditTaskInputs :
          SaveRejected(idx, edit_task)

NextWithRejects == Next \/ Rejected

\* every submission accepted: the sequences of start, reset, record, save and
\* delete (a refused submission changes nothing of the ledger)
Spec == Init /\ [][Next]_vars

\* accepted and refused submissions
SpecWithRejects == Init /\ [][NextWithRejects]_vars

\* the run of the program in which no row is ever deleted
NextNoDelete ==
    \/ \E start \in LedgerStarts :
          \E win_details \in DetailLists(start[2]) :
             StartProject(start[1], start[2], win_details)
    \/ ResetData
    \/ \E year \in Years, month \in Months, task_name \in RecordTaskInputs,
          status \in STATUS_LABELS, memo \in RecordMemoInputs :
          RecordAction(year, month, task_name, status, memo)
    \/ \E idx \in Selectable(wbs_data), edit_task \in EditTaskInputs,
          edit_status \in STATUS_LABELS, edit_memo \in EditMemoInputs :
          SaveEdit(idx, edit_task, edit_status, edit_memo)

SpecNoDelete == Init /\ [][NextNoDelete]_vars

\* --------------------------------------------------------------- CSV import
REQUIRED_COLUMNS == <<"ID", "Parent", "Task", "Status", "PL", "Memo">>

\* a cell of the PL column as written in the file: a whole amount, an amount
\* with a non-zero fraction of a yen beyond the whole amount v, a text that
\* is no number, or nothing
CsvInt(v) == [kind |-> "int", v |-> v]
CsvFraction(v) == [kind |-> "fraction", v |-> v]
CsvText == [kind |-> "text", v |-> 0]
CsvEmpty == [kind |-> "empty", v |-> 0]

\* the column type pd.read_csv infers for the PL cells
read_csv_dtype(cells) ==
    IF \E i \in 1..Len(cells) : cells[i].kind = "text" THEN "object"
    ELSE IF \E i \in 1..Len(cells) : cells[i].kind \in {"fraction", "empty"}
         THEN "float64"
    ELSE "int64"

\* df["PL"].astype(int): a text cell and a missing cell (NaN) raise, a
\* float64 column without NaN is cut to its whole amounts
astype_int(cells) ==
    IF \/ read_csv_dtype(cells) = "object"
       \/ \E i \in 1..Len(cells) : cells[i].kind = "empty"
    THEN [raised |-> TRUE, values |-> <<>>]
    ELSE [raised |-> FALSE,
          values |-> [i \in 1..Len(cells) |-> cells[i].v]]

validate_csv(columns) ==
    LET missing == {c \in {REQUIRED_COLUMNS[k] : k \in 1..Len(REQUIRED_COLUMNS)} :
                       c \notin columns}
    IN [is_valid |-> missing = {}, missing |-> missing]

\* the rows of an uploaded file: a project, this year's phase and one action
\* whose amount cell is the one given
CsvRows(cell) ==
    << Row(<<"1">>, ROOT, <<"project: life">>, "In Progress",
           CsvInt(INITIAL_CAPITAL), <<"initial capital">>, "csv"),
       Row(<<"2">>, ROOT, FYName(BaseYear), "In Progress", CsvInt(0),
           <<"current year">>, "csv"),
       Row(<<"2", ".", "1">>, <<"2">>, <<"a">>, "Status Quo", cell,
           <<"m">>, "csv") >>

\* header rows of the uploaded files: complete, without PL, without Memo
CsvHeaders ==
    {{"ID", "Parent", "Task", "Status", "PL", "Memo"},
     {"ID", "Parent", "Task", "Status", "Memo"},
     {"ID", "Parent", "Task", "Status", "PL"}}

CsvAmounts == {CsvInt(PL_STATUS_QUO), CsvFraction(PL_STATUS_QUO), CsvText,
               CsvEmpty}

CsvFiles ==
    {[columns |-> columns, rows |-> CsvRows(cell)] :
        columns \in CsvHeaders, cell \in CsvAmounts}

\* the upload handler of the onboarding screen
ImportCsv(file) ==
    /\ ~loaded
    /\ LET cells == [i \in 1..Len(file.rows) |-> file.rows[i].PL]
           cast == astype_int(cells)
       IN IF validate_csv(file.columns).is_valid /\ ~cast.raised
          THEN /\ wbs_data' = [i \in 1..Len(file.rows) |->
                                  [file.rows[i] EXCEPT !.PL = cast.values[i]]]
               /\ loaded' = TRUE
               /\ error' = FALSE
          ELSE /\ error' = TRUE
               /\ UNCHANGED <<loaded, wbs_data>>
    /\ UNCHANGED <<genesis, firstPhase, probe>>

Import == \E file \in CsvFiles : ImportCsv(file)

NextWithImport == NextWithRejects \/ Import

\* accepted and refused submissions and uploads
SpecWithImport == Init /\ [][NextWithImport]_vars

\* ------------------------------------------- calculate_valuation on its own
InitValuation ==
    /\ loaded = FALSE
    /\ wbs_data = <<>>
    /\ genesis = [age |-> 0, wins |-> 0]
    /\ firstPhase = [y \in Years |-> NoId]
    /\ error = FALSE
    /\ probe \in {[kind |-> "valuation", age |-> a, wins |-> w, out |-> <<>>] :
                     a \in MinAge..MaxAge, w \in MinWins..MaxWins}

\* the preview and the start button both call calculate_valuation(age, wins)
EvalValuation ==
    /\ probe.kind = "valuation"
    /\ probe.out = <<>>
    /\ probe' = [probe EXCEPT
                    !.out = <<calculate_valuation(probe.age, probe.wins)>>]
    /\ UNCHANGED <<loaded, wbs_data, genesis, firstPhase, error>>

NextValuation == EvalValuation

SpecValuation == InitValuation /\ [][NextValuation]_vars

\* ------------------------------------------------------ sort_wbs on its own
PoolRow(id, parent, task) == Row(id, parent, task, "Challenge", 0, <<>>, "csv")

\* rows with well-formed dotted ids, two of them with the same id
SortPool ==
    { PoolRow(<<"1">>, ROOT, <<"p">>),
      PoolRow(<<"1", ".", "2">>, <<"1">>, <<"x">>),
      PoolRow(<<"1", ".", "2">>, <<"1">>, <<"y">>),
      PoolRow(<<"1", ".", "1", "0">>, <<"1">>, <<"z">>),
      PoolRow(<<"2">>, ROOT, <<"q">>) }

SortInputs == UNION {[1..n -> SortPool] : n \in 0..MaxSortLen}

InitSort ==
    /\ loaded = FALSE
    /\ wbs_data = <<>>
    /\ genesis = [age |-> 0, wins |-> 0]
    /\ firstPhase = [y \in Years |-> NoId]
    /\ error = FALSE
    /\ probe \in {[kind |-> "sort", in |-> df, out |-> <<>>, again |-> <<>>] :
                     df \in SortInputs}

\* sort_wbs(df)
SortOnce ==
    /\ probe.kind = "sort"
    /\ probe.out = <<>>
    /\ probe' = [probe EXCEPT !.out = <<sort_wbs(probe.in)>>]
    /\ UNCHANGED <<loaded, wbs_data, genesis, firstPhase, error>>

\* sort_wbs(sort_wbs(df))
SortAgain ==
    /\ probe.kind = "sort"
    /\ probe.out # <<>>
    /\ probe.again = <<>>
    /\ probe' = [probe EXCEPT !.again = <<sort_wbs(probe.out[1])>>]
    /\ UNCHANGED <<loaded, wbs_data, genesis, firstPhase, error>>

NextSort == SortOnce \/ SortAgain

SpecSort == InitSort /\ [][NextSort]_vars

\* ------------------------------------------------------------------ claims
AppendedRows(df) == {i \in Indices(df) : df[i].origin = "append"}

\* sum of the status amounts of the appended rows, by their current status
RECURSIVE AppendedAmount(_)
AppendedAmount(df) ==
    IF df = <<>> THEN 0
    ELSE (IF Head(df).origin = "append" THEN STATUS_PL_MAP[Head(df).Status]
          ELSE 0) + AppendedAmount(Tail(df))

\* C1: in every ledger reachable from the start of a project by recording,
\* saving and deleting, no two rows have the same ID.
C1_UniqueIds ==
    loaded =>
        \A i, j \in Indices(wbs_data) :
            i # j => wbs_data[i].ID # wbs_data[j].ID

\* C2: in every reachable ledger the Parent of every row is the root sentinel
\* "0" or the ID of a row of the ledger: deleting never orphans a row.
C2_NoOrphans ==
    loaded =>
        \A i \in Indices(wbs_data) :
            \/ wbs_data[i].Parent = ROOT
            \/ \E j \in Indices(wbs_data) : wbs_data[j].ID = wbs_data[i].Parent

\* C3: in a run without deletion, the id get_next_action_id returns when an
\* action is recorded differs from every ID already in the ledger.
C3_FreshChildId ==
    [][\A year \in Years, month \in Months, task_name \in RecordTaskInputs,
          status \in STATUS_LABELS, memo \in RecordMemoInputs :
          RecordAction(year, month, task_name, status, memo) =>
              LET found == find_or_create_year_phase(wbs_data, year)
                  new_id == get_next_action_id(found.df, found.id)
              IN /\ \A i \in Indices(found.df) : found.df[i].ID # new_id
                 /\ \A i \in Indices(wbs_data) : wbs_data[i].ID # new_id
                 /\ Cardinality({i \in Indices(wbs_data') :
                                    wbs_data'[i].ID = new_id}) = 1]_vars

\* C3 witness: two actions recorded one after the other under the same parent
C3_Witness ==
    /\ loaded
    /\ \E i, j \in AppendedRows(wbs_data) :
          /\ i # j
          /\ wbs_data[i].Parent = wbs_data[j].Parent
          /\ wbs_data[i].ID # wbs_data[j].ID

ParentOfId(df, id) ==
    {df[i].Parent : i \in {j \in Indices(df) : df[j].ID = id}}

\* C4: once the phase of a year has been looked up, every later lookup of the
\* same year adds no row and returns the id of the first lookup, and that id
\* is the ID of a row whose Parent is the root sentinel.
C4_PhaseIdempotent ==
    loaded =>
        \A y \in Years :
            firstPhase[y] # NoId =>
                LET again == find_or_create_year_phase(wbs_data, y)
                IN /\ again.df = wbs_data
                   /\ again.id = firstPhase[y]
                   /\ ParentOfId(wbs_data, firstPhase[y]) = {ROOT}

\* the asset the project was started with
StartingAsset ==
    calculate_valuation(genesis.age, genesis.wins).initial_asset

\* C5: current_asset is the sum of the PL of all rows, and it is the starting
\* asset plus the status amounts of the appended rows still in the ledger;
\* age 30, no challenge, one Status Quo and one Big Win give 6,440,000,000
\* (644 units).
C5_AssetIsSum ==
    loaded =>
        /\ calculate_kpis(wbs_data).current_asset = SumPL(wbs_data)
        /\ calculate_kpis(wbs_data).current_asset
              = StartingAsset + AppendedAmount(wbs_data)
        /\ ( /\ genesis = [age |-> 30, wins |-> 0]
             /\ \E i, j \in AppendedRows(wbs_data) :
                   /\ AppendedRows(wbs_data) = {i, j}
                   /\ wbs_data[i].Status = "Status Quo"
                   /\ wbs_data[j].Status = "Big Win" )
           => calculate_kpis(wbs_data).current_asset = 644

\* C5 witness: age 30, no challenge, a Status Quo row and a Big Win row, one
\* of them saved from the edit form
C5_Witness ==
    /\ loaded
    /\ genesis = [age |-> 30, wins |-> 0]
    /\ \E i, j \in AppendedRows(wbs_data) :
          /\ AppendedRows(wbs_data) = {i, j}
          /\ wbs_data[i].Status = "Status Quo"
          /\ wbs_data[j].Status = "Big Win"
          /\ wbs_data[j].Memo = <<"m">>
    /\ calculate_kpis(wbs_data).current_asset = 644

\* C6: action_count is the number of rows recorded and not deleted: every
\* recorded row is the child of a phase row and is counted once.
C6_ActionCount ==
    loaded =>
        /\ calculate_kpis(wbs_data).action_count = NumAppended(wbs_data)
        /\ \A i \in AppendedRows(wbs_data) :
              wbs_data[i].Parent \in get_phase_ids(wbs_data)

Evaluated == probe.kind = "valuation" /\ probe.out # <<>>

\* C7: for age in 1..120 and challenge count in 0..100, goodwill is
\* min(count * goodwill rate, age * depreciation rate), so goodwill never
\* exceeds the time cost and the starting asset never exceeds the initial
\* capital.
C7_GoodwillCapped ==
    Evaluated =>
        LET v == probe.out[1]
            timeCost == probe.age * DEPRECIATION_RATE
            raw == probe.wins * GOODWILL_RATE
        IN /\ v.depreciation = timeCost
           /\ v.goodwill = (IF raw <= timeCost THEN raw ELSE timeCost)
           /\ v.goodwill <= v.depreciation
           /\ v.initial_asset = INITIAL_CAPITAL - timeCost + v.goodwill
           /\ v.initial_asset <= INITIAL_CAPITAL

\* C7 witness: an evaluation in which the cap is what decides the goodwill
C7_Witness ==
    /\ Evaluated
    /\ probe.wins * GOODWILL_RATE > probe.age * DEPRECIATION_RATE
    /\ probe.out[1].goodwill = probe.out[1].depreciation
    /\ probe.out[1].initial_asset = INITIAL_CAPITAL

\* C8 as stated: for age in 1..120 and challenge count in 0..100 the time
\* cost, the goodwill and the starting asset are all non-negative integers.
C8_AllNonNegative ==
    Evaluated =>
        /\ probe.out[1].depreciation \in Nat
        /\ probe.out[1].goodwill \in Nat
        /\ probe.out[1].initial_asset \in Nat

\* the oldest age whose time cost the initial capital still covers
MaxSolventAge == INITIAL_CAPITAL \div DEPRECIATION_RATE

\* C8 amended: the time cost and the goodwill are non-negative integers; the
\* starting asset is an integer, non-negative up to age 83 and never below
\* the initial capital less the time cost of age 120.
C8_NonNegativeButAsset ==
    Evaluated =>
        /\ probe.out[1].depreciation \in Nat
        /\ probe.out[1].goodwill \in Nat
        /\ probe.out[1].initial_asset \in Int
        /\ probe.age <= MaxSolventAge => probe.out[1].initial_asset >= 0
        /\ probe.out[1].initial_asset
              >= INITIAL_CAPITAL - MaxAge * DEPRECIATION_RATE

\* C8 witness: age 120 without challenges starts 4,400,000,000 in debt
C8_Witness ==
    /\ Evaluated
    /\ probe.age = MaxAge
    /\ probe.wins = 0
    /\ probe.out[1].initial_asset = 0 - 440

\* the integer components of a dotted id, read character by character
RECURSIVE ScanId(_, _, _)
ScanId(s, done, current) ==
    IF s = <<>> THEN Append(done, current)
    ELSE IF Head(s) = "." THEN ScanId(Tail(s), Append(done, current), 0)
    ELSE ScanId(Tail(s), done, 10 * current + DigitVal(Head(s)))

IdTuple(id) == ScanId(id, <<>>, 0)

\* a comes strictly before b in the lexicographic order of integer tuples
RECURSIVE LexBefore(_, _)
LexBefore(a, b) ==
    IF a = <<>> THEN b # <<>>
    ELSE IF b = <<>> THEN FALSE
    ELSE IF Head(a) # Head(b) THEN Head(a) < Head(b)
    ELSE LexBefore(Tail(a), Tail(b))

Ascending(df) ==
    \A i \in 1..(Len(df) - 1) :
        ~LexBefore(IdTuple(df[i + 1].ID), IdTuple(df[i].ID))

Occurrences(df, r) == Cardinality({i \in Indices(df) : df[i] = r})

SameRows(a, b) ==
    /\ Len(a) = Len(b)
    /\ \A i \in Indices(a) : Occurrences(a, a[i]) = Occurrences(b, a[i])

IdsOf(df) == [i \in Indices(df) |-> df[i].ID]

Sorted == probe.kind = "sort" /\ probe.out # <<>>

\* C9: sort_wbs returns the same rows in ascending order of the tuple of
\* integer id components ("1.2" before "1.10"; ["1.10","1.2","1"] becomes
\* ["1","1.2","1.10"]), and sorting the result again changes nothing.
C9_SortOrdersAndIsIdempotent ==
    Sorted =>
        /\ SameRows(probe.in, probe.out[1])
        /\ Ascending(probe.out[1])
        /\ \A i, j \in Indices(probe.out[1]) :
              ( /\ probe.out[1][i].ID = <<"1", ".", "2">>
                /\ probe.out[1][j].ID = <<"1", ".", "1", "0">> ) => i < j
        /\ IdsOf(probe.in) = << <<"1", ".", "1", "0">>, <<"1", ".", "2">>,
                                <<"1">> >>
              => IdsOf(probe.out[1]) = << <<"1">>, <<"1", ".", "2">>,
                                          <<"1", ".", "1", "0">> >>
        /\ probe.again # <<>> => probe.again[1] = probe.out[1]

\* C9 witness: ["1.10","1.2","1"] sorted, and sorted again
C9_Witness ==
    /\ Sorted
    /\ probe.again # <<>>
    /\ IdsOf(probe.in) = << <<"1", ".", "1", "0">>, <<"1", ".", "2">>,
                            <<"1">> >>
    /\ IdsOf(probe.again[1]) = << <<"1">>, <<"1", ".", "2">>,
                                  <<"1", ".", "1", "0">> >>

\* C10: a save of the edit form changes the Task, Status, Memo and PL of the
\* selected row only, sets PL to the amount of the new status, and leaves the
\* row's ID and Parent, the number and order of the rows and every other row
\* as they were.
C10_EditFrame ==
    [][\A idx \in Selectable(wbs_data), edit_task \in EditTaskInputs,
          edit_status \in STATUS_LABELS, edit_memo \in EditMemoInputs :
          SaveEdit(idx, edit_task, edit_status, edit_memo) =>
              /\ Len(wbs_data') = Len(wbs_data)
              /\ \A j \in Indices(wbs_data) :
                    j # idx => wbs_data'[j] = wbs_data[j]
              /\ wbs_data'[idx].ID = wbs_data[idx].ID
              /\ wbs_data'[idx].Parent = wbs_data[idx].Parent
              /\ wbs_data'[idx].origin = wbs_data[idx].origin
              /\ wbs_data'[idx].Task = Strip(edit_task)
              /\ wbs_data'[idx].Status = edit_status
              /\ wbs_data'[idx].Memo = edit_memo
              /\ wbs_data'[idx].PL = STATUS_PL_MAP[edit_status]]_vars

\* C10 witness: a recorded row carrying the task and memo typed into the edit
\* form, with another row beside it
C10_Witness ==
    /\ loaded
    /\ \E i, j \in AppendedRows(wbs_data) :
          /\ i # j
          /\ wbs_data[i].Task = FYName(BaseYear + 1)
          /\ wbs_data[i].Memo = <<"m">>
          /\ wbs_data[i].PL = PL_BIG_WIN
          /\ wbs_data[j].Memo = <<>>

\* what a refused submission shows: an error message, and the ledger and the
\* screen it is on as before
RefusedOutcome ==
    /\ error'
    /\ wbs_data' = wbs_data
    /\ loaded' = loaded

\* a record submission with an empty or blank task name, for any year (one
\* whose phase row exists or one whose phase row is missing), is refused
BlankRecordRefused ==
    \A year \in Years, month \in Months, task_name \in RecordTaskInputs,
       status \in STATUS_LABELS, memo \in RecordMemoInputs :
       /\ Strip(task_name) = <<>>
       /\ \/ RecordAction(year, month, task_name, status, memo)
          \/ RecordRejected(task_name)
       => RefusedOutcome

\* a save of the edit form with an empty or blank task name is refused
BlankSaveRefused ==
    \A idx \in Selectable(wbs_data), edit_task \in EditTaskInputs,
       edit_status \in STATUS_LABELS, edit_memo \in EditMemoInputs :
       /\ Strip(edit_task) = <<>>
       /\ \/ SaveEdit(idx, edit_task, edit_status, edit_memo)
          \/ SaveRejected(idx, edit_task)
       => RefusedOutcome

\* the file lacks a required column
LacksColumn(file) ==
    \E k \in 1..Len(REQUIRED_COLUMNS) : REQUIRED_COLUMNS[k] \notin file.columns

\* the file has an amount that is not a whole number
NonIntegerAmount(file) ==
    \E i \in 1..Len(file.rows) : file.rows[i].PL.kind # "int"

\* an upload of a file that lacks a required column or has an amount that
\* is not a whole number is refused
MalformedImportRefused ==
    \A file \in CsvFiles :
       /\ LacksColumn(file) \/ NonIntegerAmount(file)
       /\ ImportCsv(file)
       => RefusedOutcome

\* C11: every refused operation reports an error and changes no row: a
\* record submission with an empty or blank label (also for a year that has
\* no phase row, and then no phase row is created), a save of the edit form
\* with an empty or blank label, and an upload whose file lacks a required
\* column or has a non-integer amount.
C11_RefusedChangesNothing ==
    [][/\ BlankRecordRefused
       /\ BlankSaveRefused
       /\ MalformedImportRefused]_vars

====
